---- MODULE Spec2Model ----
(***************************************************************************)
(* Countries API: the refresh reconciler (countries/utils.py), the Country *)
(* model (countries/models.py) and the HTTP views (countries/views.py).    *)
(*                                                                         *)
(* Python's None is the empty sequence and a present value v is <<v>>, so  *)
(* that an optional text and an optional number never compare by accident. *)
(* One request is served at a time: the refresh loop runs record by record *)
(* inside its transaction, and a request is taken only once the response   *)
(* to the one before it has been handed over.                              *)
(***************************************************************************)
EXTENDS Integers, Sequences, FiniteSets, TLC

\* ------------------------------------------------------------- bounds
MaxPop == 1
MaxCurrencies == 2
MaxBatch == 2
MaxTime == 2

\* ------------------------------------------------------------ values
None == <<>>
Some(v) == <<v>>

(* Python truthiness of an optional text / an optional number. *)
FalsyStr(o) == o = None \/ o = Some("")
FalsyNum(o) == o = None \/ o = Some(0)

(* Country names the directory can supply. "Ab" and "AB" differ only in    *)
(* letter case; "ab" is used by lookups only.                              *)
Names == {"Ab", "AB"}
LookupNames == Names \cup {"ab"}

(* The case folding of name__iexact / region__iexact / currency_code__iexact. *)
Lower(s) ==
  CASE s \in {"Ab", "AB", "ab"} -> "ab"
    [] s \in {"USD", "usd"} -> "usd"
    [] s \in {"EUR", "eur"} -> "eur"
    [] s \in {"Eu", "eu"} -> "eu"
    [] OTHER -> s

(* Binary collation of the name column, as a rank: "AB" < "Ab". *)
NameRank(n) == IF n = "AB" THEN 1 ELSE 2

Codes == {"USD", "EUR"}
(* The currencies the rate service quotes; "EUR" is never quoted. *)
RateCodes == {"USD"}
(* A quoted rate, in units of 10^-11: 0, 0.00000000004 and 0.0000000001.  *)
RateVals == {0, 4, 10}
(* random.uniform(1000, 2000): the two ends of the interval. *)
Multipliers == {1000, 2000}

RawNames == {None, Some("")} \cup {Some(n) : n \in Names}
RawPopulations == {None} \cup {Some(p) : p \in 0..MaxPop}
RawCodes == {None, Some("")} \cup {Some(c) : c \in Codes}
(* The directory reports one region per country: "Ab" lies in "Eu", "AB"   *)
(* has none.                                                               *)
RegionOf(name) == IF name = Some("Ab") THEN Some("Eu") ELSE None
CurrencyEntries == [code : RawCodes]
RawCurrencies == UNION {[1..k -> CurrencyEntries] : k \in 0..MaxCurrencies}

(* One raw entry of the directory payload (capital and flag are copied     *)
(* through like region and are left out).                                  *)
RawEntries ==
  {[name |-> n, population |-> p, currencies |-> c, region |-> RegionOf(n)] :
     n \in RawNames, p \in RawPopulations, c \in RawCurrencies}

(* The rates payload: a mapping from some of the quoted codes to a rate. *)
RateTables == UNION {[S -> RateVals] : S \in SUBSET RateCodes}

RateFetchOutcomes == {"ok", "timeout", "connection_error", "http_error", "not_success"}
DirFetchOutcomes == {"ok", "timeout", "connection_error", "http_error"}

\* ------------------------------------------------------------- state
VARIABLES
  store,           \* table countries: exact name -> row
  marker,          \* GlobalSettings row 'last_global_refresh': None or <<time>>
  image,           \* whether cache/summary.png exists
  now,             \* the clock, one tick per refresh that reaches its transaction
  phase,           \* "idle" | "loop" (inside refresh_countries_data's for loop)
  exchange_rates,  \* CountryDataFetcher.exchange_rates
  fetched,         \* len(countries_data)
  counts,          \* processed / created / updated, and what the prints log
  cur,             \* inside the loop body: the entry at hand and how it ended
  resp             \* the response being handed over, if any

vars == <<store, marker, image, now, phase, exchange_rates, fetched, counts, cur, resp>>

ZeroCounts == [processed |-> 0, created |-> 0, updated |-> 0, skipped |-> 0, raised |-> 0]
NoCur == [outcome |-> "none"]
NoResp == [op |-> "none"]
Idle == phase = "idle" /\ resp = NoResp

Init ==
  /\ store = <<>>
  /\ marker = None
  /\ image = FALSE
  /\ now = 0
  /\ phase = "idle"
  /\ exchange_rates = <<>>
  /\ fetched = 0
  /\ counts = ZeroCounts
  /\ cur = NoCur
  /\ resp = NoResp

\* ----------------------------------------------- utils.py: the fetcher

get_currency_code(currencies) ==
  IF currencies = <<>> THEN None ELSE currencies[1].code

(* Decimal(str(rate)).quantize(Decimal('0.0000000001'), ROUND_HALF_UP):    *)
(* from units of 10^-11 to units of 10^-10.                                *)
Quantize(rate) == (rate + 5) \div 10

(* A variant of get_exchange_rate that falls back to a rate of 1e-10 for a  *)
(* code the mapping does not hold.                                         *)
get_exchange_rate_no_default(currency_code, rates) ==
  IF FalsyStr(currency_code) \/ DOMAIN rates = {}
  THEN None
  ELSE IF currency_code[1] \notin DOMAIN rates
       THEN Some(Quantize(10))
       ELSE IF rates[currency_code[1]] # 0
            THEN Some(Quantize(rates[currency_code[1]]))
            ELSE None

(* self.exchange_rates.get(currency_code), None for a missing code or      *)
(* mapping and for a rate of 0, else the rate quantized.                   *)
get_exchange_rate(currency_code, rates) ==
  IF FalsyStr(currency_code) \/ DOMAIN rates = {}
  THEN None
  ELSE IF currency_code[1] \notin DOMAIN rates
       THEN None
       ELSE IF rates[currency_code[1]] # 0
            THEN Some(Quantize(rates[currency_code[1]]))
            ELSE None

\* ------------------------------------------------ models.py: Country

(* population * multiplier / float(exchange_rate), in units of 10^10 (the  *)
(* rate is in units of 10^-10); round(gdp, 10) is below that unit.         *)
calculate_estimated_gdp(population, exchange_rate, multiplier) ==
  (population * multiplier) \div exchange_rate

(* Country.clean: the fields it reports. *)
clean(obj) ==
  {f \in {"currency_code"} : FalsyStr(obj.currency_code)}

(* Country.save up to full_clean(): estimated_gdp is recomputed from the   *)
(* row's own population and exchange_rate with a fresh multiplier, then    *)
(* the row is validated. `fits` is whether the float drawn for             *)
(* estimated_gdp passes the column's digit validators (30 digits, 10       *)
(* decimal places), which the inputs do not decide.                        *)
save(obj, multiplier, fits, time) ==
  LET gdp == IF obj.population # 0 /\ ~FalsyNum(obj.exchange_rate)
             THEN Some(calculate_estimated_gdp(obj.population, obj.exchange_rate[1], multiplier))
             ELSE None
      row == [obj EXCEPT !.estimated_gdp = gdp, !.last_refreshed_at = time]
  IN IF gdp # None /\ ~fits THEN [raised |-> "invalid_gdp"]
     ELSE IF clean(row) # {} THEN [raised |-> "invalid_currency"]
     ELSE [raised |-> "no", row |-> row]

\* --------------------------------- utils.py: refresh_countries_data

(* Country.objects.update_or_create(name=name, defaults=...): exact-match  *)
(* lookup, every non-key column taken from defaults, then Country.save.    *)
update_or_create(st, name, defaults, multiplier, fits, time) ==
  LET existed == name \in DOMAIN st
      saved == save(defaults, multiplier, fits, time)
  IN IF saved.raised = "no"
     THEN [outcome |-> IF existed THEN "updated" ELSE "created",
           store |-> (name :> saved.row) @@ st]
     ELSE [outcome |-> saved.raised, store |-> st]

(* The body of the for loop for one entry: how it ends and the table after. *)
process_country(st, country_data, rates, multiplier, fits, time) ==
  LET name == country_data.name
      population == IF country_data.population = None THEN 0
                    ELSE country_data.population[1]
      currencies == country_data.currencies
      code == get_currency_code(currencies)
      no_currency == currencies = <<>> \/ FalsyStr(code)
      currency_code == IF no_currency THEN None ELSE code
      exchange_rate == IF no_currency THEN None
                       ELSE get_exchange_rate(currency_code, rates)
  IN IF FalsyStr(name)
     THEN [outcome |-> "skipped", store |-> st]
     ELSE IF exchange_rate = Some(0)
     THEN [outcome |-> "zero_division", store |-> st]
     ELSE update_or_create(st, name[1],
            [population |-> population,
             currency_code |-> currency_code,
             exchange_rate |-> exchange_rate,
             estimated_gdp |-> IF no_currency THEN Some(0)
                               ELSE IF exchange_rate = None THEN None
                               ELSE Some(calculate_estimated_gdp(
                                           population, exchange_rate[1], multiplier)),
             region |-> country_data.region,
             last_refreshed_at |-> time],
            multiplier, fits, time)

(* A variant of tally with processed += 1 placed after the name check. *)
tally_after_name_check(c, outcome) ==
  [processed |-> IF outcome = "skipped" THEN c.processed ELSE c.processed + 1,
   created |-> IF outcome = "created" THEN c.created + 1 ELSE c.created,
   updated |-> IF outcome = "updated" THEN c.updated + 1 ELSE c.updated,
   skipped |-> IF outcome = "skipped" THEN c.skipped + 1 ELSE c.skipped,
   raised |-> IF outcome \in {"invalid_currency", "invalid_gdp", "zero_division"}
              THEN c.raised + 1 ELSE c.raised]

(* processed += 1 at the top of the loop body, created / updated after the *)
(* upsert; skipped and raised are what the loop only prints or drops.      *)
tally(c, outcome) ==
  [processed |-> c.processed + 1,
   created |-> IF outcome = "created" THEN c.created + 1 ELSE c.created,
   updated |-> IF outcome = "updated" THEN c.updated + 1 ELSE c.updated,
   skipped |-> IF outcome = "skipped" THEN c.skipped + 1 ELSE c.skipped,
   raised |-> IF outcome \in {"invalid_currency", "invalid_gdp", "zero_division"}
              THEN c.raised + 1 ELSE c.raised]

(* The multiplier is drawn, and the drawn float validated, only for a row  *)
(* whose GDP is computed.                                                  *)
Draws(country_data, rates) ==
  LET code == get_currency_code(country_data.currencies)
  IN IF ~FalsyStr(country_data.name) /\ ~FalsyStr(code)
        /\ ~FalsyNum(country_data.population)
        /\ ~FalsyNum(get_exchange_rate(code, rates))
     THEN Multipliers \X BOOLEAN
     ELSE {<<1000, TRUE>>}

(* A variant of RefreshUnavailable that writes the marker before fetching. *)
RefreshUnavailable_marker_first(rates_fetch, countries_fetch) ==
  /\ Idle
  /\ rates_fetch # "ok" \/ countries_fetch # "ok"
  /\ resp' = [op |-> "refresh", status |-> 503,
              rates_fetch |-> rates_fetch,
              countries_fetch |-> IF rates_fetch = "ok" THEN countries_fetch
                                  ELSE "not_attempted"]
  /\ marker' = Some(now + 1)
  /\ UNCHANGED <<store, image, now, phase, exchange_rates, fetched, counts, cur>>

(* POST /countries/refresh when a fetch fails: ExternalAPIError leaves     *)
(* refresh_countries_data before the transaction and the view answers 503. *)
RefreshUnavailable(rates_fetch, countries_fetch) ==
  /\ Idle
  /\ rates_fetch # "ok" \/ countries_fetch # "ok"
  /\ resp' = [op |-> "refresh", status |-> 503,
              rates_fetch |-> rates_fetch,
              countries_fetch |-> IF rates_fetch = "ok" THEN countries_fetch
                                  ELSE "not_attempted"]
  /\ UNCHANGED <<store, marker, image, now, phase, exchange_rates, fetched, counts, cur>>

(* Both fetches succeed: the transaction opens and the marker is written. *)
RefreshBegin(rates, n) ==
  /\ Idle
  /\ now < MaxTime
  /\ now' = now + 1
  /\ marker' = Some(now')
  /\ phase' = "loop"
  /\ exchange_rates' = rates
  /\ fetched' = n
  /\ counts' = ZeroCounts
  /\ cur' = NoCur
  /\ UNCHANGED <<store, image, resp>>

(* The loop body for the next entry, up to its print or its except clause. *)
RefreshCountry(country_data, draw) ==
  /\ phase = "loop"
  /\ cur = NoCur
  /\ counts.processed < fetched
  /\ LET done == process_country(store, country_data, exchange_rates,
                                 draw[1], draw[2], now)
     IN /\ store' = done.store
        /\ counts' = tally(counts, done.outcome)
        /\ cur' = [outcome |-> done.outcome, entry |-> country_data,
                   existed |-> country_data.name # None
                               /\ country_data.name[1] \in DOMAIN store]
  /\ UNCHANGED <<marker, image, now, phase, exchange_rates, fetched, resp>>

(* The end of the loop body (or its continue): on to the next entry. *)
Continue ==
  /\ phase = "loop"
  /\ cur # NoCur
  /\ cur' = NoCur
  /\ UNCHANGED <<store, marker, image, now, phase, exchange_rates, fetched, counts, resp>>

(* StatusView.list: the newest last_refreshed_at over the rows. *)
status_last_refreshed_at(st) ==
  IF DOMAIN st = {} THEN None
  ELSE Some(CHOOSE t \in {st[n].last_refreshed_at : n \in DOMAIN st} :
              \A n \in DOMAIN st : st[n].last_refreshed_at <= t)

(* The loop is over: the transaction commits, the summary image is drawn   *)
(* (or not: its errors are swallowed) and the view answers 200 with        *)
(* response_data, whose errors is result.get('errors', 0).                 *)
RefreshEnd(drawn) ==
  /\ phase = "loop"
  /\ cur = NoCur
  /\ counts.processed = fetched
  /\ image' = (drawn \/ image)
  /\ resp' = [op |-> "refresh", status |-> 200,
              rates_fetch |-> "ok", countries_fetch |-> "ok",
              countries_processed |-> counts.processed,
              countries_created |-> counts.created,
              countries_updated |-> counts.updated,
              errors |-> 0,
              fetched |-> fetched, skipped |-> counts.skipped,
              raised |-> counts.raised, time |-> now]
  /\ phase' = "idle"
  /\ exchange_rates' = <<>>
  /\ fetched' = 0
  /\ counts' = ZeroCounts
  /\ cur' = NoCur
  /\ UNCHANGED <<store, marker, now>>

\* ------------------------------------------------- views.py: queries

refreshLocals == <<phase, exchange_rates, fetched, counts, cur>>

(* GET /countries/status *)
Status ==
  /\ Idle
  /\ resp' = [op |-> "status", status |-> 200,
              total_countries |-> Cardinality(DOMAIN store),
              last_refreshed_at |-> status_last_refreshed_at(store)]
  /\ UNCHANGED <<store, marker, image, now, refreshLocals>>

(* The rows name__iexact=name selects. *)
Matches(st, name) == {n \in DOMAIN st : Lower(n) = Lower(name)}

(* A variant of get_object that takes the first of several matching rows. *)
get_object_first_match(st, name) ==
  IF Matches(st, name) = {} THEN [status |-> 404]
  ELSE [status |-> 200,
        key |-> CHOOSE n \in Matches(st, name) :
                  \A o \in Matches(st, name) : NameRank(n) <= NameRank(o)]

(* Country.objects.get(name__iexact=name) inside get_object: the row, 404  *)
(* for DoesNotExist, and 500 for MultipleObjectsReturned, which get_object *)
(* does not catch.                                                         *)
get_object(st, name) ==
  IF Matches(st, name) = {} THEN [status |-> 404]
  ELSE IF Cardinality(Matches(st, name)) > 1 THEN [status |-> 500]
  ELSE [status |-> 200, key |-> CHOOSE n \in Matches(st, name) : TRUE]

(* GET /countries/<name> *)
Get(name) ==
  /\ Idle
  /\ LET found == get_object(store, name)
     IN resp' = IF found.status = 200
                THEN [op |-> "get", name |-> name, status |-> 200,
                      country |-> found.key]
                ELSE [op |-> "get", name |-> name, status |-> found.status]
  /\ UNCHANGED <<store, marker, image, now, refreshLocals>>

(* DELETE /countries/<name> *)
Delete(name) ==
  /\ Idle
  /\ LET found == get_object(store, name)
     IN /\ resp' = [op |-> "delete", name |-> name, status |-> found.status]
        /\ store' = IF found.status = 200
                    THEN [n \in DOMAIN store \ {found.key} |-> store[n]]
                    ELSE store
  /\ UNCHANGED <<marker, image, now, refreshLocals>>

\* ----------------------------------------- views.py: CountriesListView

ParamKeys == {"region", "currency", "name", "sort", "bogus", "page"}
ParamValues(k) ==
  CASE k = "region" -> {"eu"}
    [] k = "currency" -> {"usd"}
    [] k = "name" -> {"ab"}
    [] k = "sort" -> {"gdp_desc", "gdp_asc", "population_desc", "population_asc",
                      "name_asc", "name_desc", "newest"}
    [] OTHER -> {"1"}
Queries ==
  UNION {{q \in [K -> UNION {ParamValues(k) : k \in K}] :
            \A k \in K : q[k] \in ParamValues(k)} : K \in SUBSET ParamKeys}

valid_params == {"region", "currency", "sort", "name"}

(* A variant of invalid_params that lets "page" through. *)
invalid_params_page_allowed(provided_params) ==
  {param \in provided_params : param \notin valid_params \cup {"page"}}

invalid_params(provided_params) ==
  {param \in provided_params : param \notin valid_params}

Param(q, k) == IF k \in DOMAIN q THEN Some(q[k]) ELSE None

(* A variant of sorting_map whose gdp_desc orders by ascending GDP. *)
sorting_map_gdp_desc_ascending ==
  [gdp_desc |-> "estimated_gdp", gdp_asc |-> "estimated_gdp",
   population_desc |-> "-population", population_asc |-> "population",
   name_asc |-> "name", name_desc |-> "-name"]

(* sorting_map of get_queryset: sort value to order_by column. *)
sorting_map ==
  [gdp_desc |-> "-estimated_gdp", gdp_asc |-> "estimated_gdp",
   population_desc |-> "-population", population_asc |-> "population",
   name_asc |-> "name", name_desc |-> "-name"]

(* order_by(column): the value a row is ordered by, negated for a leading  *)
(* "-" (descending).                                                       *)
OrderKey(st, n, column) ==
  CASE column = "-estimated_gdp" -> 0 - st[n].estimated_gdp[1]
    [] column = "estimated_gdp" -> st[n].estimated_gdp[1]
    [] column = "-population" -> 0 - st[n].population
    [] column = "population" -> st[n].population
    [] column = "-name" -> 0 - NameRank(n)
    [] OTHER -> NameRank(n)

(* The rows get_queryset selects, before ordering. *)
Selected(st, q) ==
  LET region == Param(q, "region")
      currency == Param(q, "currency")
      name == Param(q, "name")
      sort_by == Param(q, "sort")
  IN {n \in DOMAIN st :
        /\ FalsyStr(region)
           \/ (st[n].region # None /\ Lower(st[n].region[1]) = Lower(region[1]))
        /\ FalsyStr(currency)
           \/ (st[n].currency_code # None
               /\ Lower(st[n].currency_code[1]) = Lower(currency[1]))
        /\ FalsyStr(name) \/ Lower(n) = Lower(name[1])
        /\ (sort_by # None /\ sort_by[1] \in DOMAIN sorting_map
              /\ sort_by[1] \in {"gdp_desc", "gdp_asc"})
           => st[n].estimated_gdp # None}

(* get_queryset: every order the engine may return the selected rows in    *)
(* (rows equal in the sort column come in any order).                      *)
get_queryset(st, q) ==
  IF invalid_params(DOMAIN q) # {} THEN {<<>>}
  ELSE LET rows == Selected(st, q)
           sort_by == Param(q, "sort")
           column == IF sort_by # None /\ sort_by[1] \in DOMAIN sorting_map
                     THEN sorting_map[sort_by[1]] ELSE "name"
       IN {r \in [1..Cardinality(rows) -> rows] :
             /\ \A i, j \in DOMAIN r : i # j => r[i] # r[j]
             /\ \A i, j \in DOMAIN r :
                  i < j => OrderKey(st, r[i], column) <= OrderKey(st, r[j], column)}

(* GET /countries: list() answers 400 before get_queryset is ever called   *)
(* when a key is not recognised, and otherwise lists the queryset.         *)
List(q) ==
  /\ Idle
  /\ \/ /\ invalid_params(DOMAIN q) # {}
        /\ resp' = [op |-> "list", query |-> q, status |-> 400,
                    invalid_parameters |-> invalid_params(DOMAIN q),
                    rows |-> <<>>, read |-> FALSE]
     \/ /\ invalid_params(DOMAIN q) = {}
        /\ \E r \in get_queryset(store, q) :
             resp' = [op |-> "list", query |-> q, status |-> 200,
                      invalid_parameters |-> {},
                      rows |-> r, read |-> TRUE]
  /\ UNCHANGED <<store, marker, image, now, refreshLocals>>

(* The response reaches the client. *)
Deliver ==
  /\ resp # NoResp
  /\ resp' = NoResp
  /\ UNCHANGED <<store, marker, image, now, refreshLocals>>

\* ------------------------------------------------------ specification

Next ==
  \/ \E rf \in RateFetchOutcomes, df \in DirFetchOutcomes : RefreshUnavailable(rf, df)
  \/ \E rates \in RateTables, n \in 0..MaxBatch : RefreshBegin(rates, n)
  \/ \E e \in RawEntries : \E d \in Draws(e, exchange_rates) : RefreshCountry(e, d)
  \/ Continue
  \/ \E drawn \in BOOLEAN : RefreshEnd(drawn)
  \/ Status
  \/ \E name \in LookupNames : Get(name)
  \/ \E name \in LookupNames : Delete(name)
  \/ \E q \in Queries : List(q)
  \/ Deliver

Spec == Init /\ [][Next]_vars

\* ------------------------------------------------------------ claims

(* The loop has just handled an entry that carries a name. *)
HandledNamed == phase = "loop" /\ cur # NoCur /\ ~FalsyStr(cur.entry.name)
CurName == cur.entry.name[1]
CurPopulation ==
  IF cur.entry.population = None THEN 0 ELSE cur.entry.population[1]
(* No entry of the currency list carries a non-empty code. *)
NoUsableCode(country_data) ==
  \A i \in DOMAIN country_data.currencies : FalsyStr(country_data.currencies[i].code)
(* The currency list starts with an entry that carries a non-empty code. *)
LeadingCode(country_data) ==
  country_data.currencies # <<>> /\ ~FalsyStr(country_data.currencies[1].code)
RefreshDone == resp.op = "refresh" /\ resp.status = 200

(* C1: once the loop has handled a named entry whose currency list is      *)
(* empty or has no usable code, the country is in the table with           *)
(* currency_code and exchange_rate absent and estimated_gdp exactly zero.  *)
C1_NoCurrencyStoredWithZeroGdp ==
  (HandledNamed /\ NoUsableCode(cur.entry))
    => /\ CurName \in DOMAIN store
       /\ store[CurName].currency_code = None
       /\ store[CurName].exchange_rate = None
       /\ store[CurName].estimated_gdp = Some(0)

(* C2: a country the loop has just stored with a rate resolved from the    *)
(* mapping has estimated_gdp present and non-negative, whatever its        *)
(* population (0 and omitted included).                                    *)
C2_ResolvedRateHasGdp ==
  (HandledNamed /\ cur.outcome \in {"created", "updated"}
     /\ store[CurName].exchange_rate # None)
    => /\ store[CurName].estimated_gdp # None
       /\ store[CurName].estimated_gdp[1] >= 0

(* C3: once the loop has handled a named entry whose currency code (the    *)
(* code its currency list starts with) is not a key of the fetched rate    *)
(* mapping, the country is in the table with that code, with exchange_rate *)
(* absent and with estimated_gdp absent, not zero.                         *)
C3_UnquotedCodeHasNoGdp ==
  (HandledNamed /\ LeadingCode(cur.entry)
     /\ cur.entry.currencies[1].code[1] \notin DOMAIN exchange_rates)
    => /\ cur.outcome \in {"created", "updated"}
       /\ CurName \in DOMAIN store
       /\ store[CurName].currency_code = cur.entry.currencies[1].code
       /\ store[CurName].exchange_rate = None
       /\ store[CurName].estimated_gdp = None

C3_Witness ==
  /\ HandledNamed /\ LeadingCode(cur.entry)
  /\ cur.entry.currencies[1].code[1] \notin DOMAIN exchange_rates
  /\ DOMAIN exchange_rates # {}
  /\ cur.entry.population = Some(1)
  /\ cur.existed /\ cur.outcome = "updated"

(* C4: a refresh whose rate fetch or directory fetch fails answers 503     *)
(* (external source unavailable) and its step leaves the table of          *)
(* countries and the global refresh marker exactly as they were.           *)
C4_FailedFetchWritesNothing ==
  [][(resp'.op = "refresh" /\ resp' # resp
        /\ (resp'.rates_fetch # "ok" \/ resp'.countries_fetch # "ok"))
       => (resp'.status = 503 /\ store' = store /\ marker' = marker
           /\ phase' = "idle")]_vars

C4_Witness ==
  /\ resp.op = "refresh" /\ resp.status = 503
  /\ resp.rates_fetch = "ok" /\ resp.countries_fetch = "timeout"
  /\ DOMAIN store # {} /\ marker # None

(* C5: a refresh returns normally whatever its entries raise, an entry     *)
(* that raised is counted in the response's error count and in neither     *)
(* created nor updated, and every entry of the batch is processed.         *)
C5_RaisedEntriesAreCounted ==
  RefreshDone
    => /\ resp.errors = resp.raised
       /\ resp.countries_created + resp.countries_updated + resp.raised
            <= resp.countries_processed
       /\ resp.countries_processed = resp.fetched

(* C6: in the response of a successful refresh, processed = created +      *)
(* updated + entries skipped for a missing or empty name + entries whose   *)
(* processing raised, and processed is the number of fetched entries.      *)
C6_CountsAddUp ==
  RefreshDone
    => /\ resp.countries_processed =
            resp.countries_created + resp.countries_updated
              + resp.skipped + resp.raised
       /\ resp.countries_processed = resp.fetched

C6_Witness ==
  /\ RefreshDone
  /\ resp.skipped = 1 /\ resp.raised = 1 /\ resp.fetched = 2

(* C7: a named entry the loop has handled is created (and counted so) when *)
(* its exact name was not in the table and overwritten (and counted as     *)
(* updated) when it was; either way the row then holds the source's        *)
(* population and its currency code, absent where the source has none.     *)
(* Entries that died of a zero rate or of an oversized GDP, and currency    *)
(* lists whose only codes come after the first entry, are left aside.      *)
C7_UpsertByExactName ==
  (HandledNamed /\ cur.outcome \notin {"zero_division", "invalid_gdp"}
     /\ (LeadingCode(cur.entry) \/ NoUsableCode(cur.entry)))
    => /\ cur.outcome = IF cur.existed THEN "updated" ELSE "created"
       /\ CurName \in DOMAIN store
       /\ store[CurName].population = CurPopulation
       /\ store[CurName].currency_code =
            IF LeadingCode(cur.entry) THEN cur.entry.currencies[1].code ELSE None

(* C8: right after a delete that succeeded, a get of any spelling of the   *)
(* deleted name that differs at most in letter case answers 404.           *)
C8_DeletedIsNotFound ==
  (resp.op = "delete" /\ resp.status = 200)
    => \A n \in LookupNames :
         Lower(n) = Lower(resp.name) => get_object(store, n).status = 404

C8_Witness ==
  /\ resp.op = "delete" /\ resp.status = 200 /\ resp.name = "ab"

(* C9: when a refresh whose two fetches succeeded returns, the status      *)
(* operation reports that refresh's time as last_refreshed_at, also when   *)
(* the refresh created and updated nothing.                                *)
C9_StatusShowsRefreshTime ==
  RefreshDone => status_last_refreshed_at(store) = Some(resp.time)

(* C10: a list request carrying a key other than region, currency, name    *)
(* and sort answers 400 naming exactly those keys, returns no rows and     *)
(* reads nothing from the table, whatever else it carries.                 *)
C10_UnknownKeyRejected ==
  (resp.op = "list"
     /\ DOMAIN resp.query \ {"region", "currency", "name", "sort"} # {})
    => /\ resp.status = 400
       /\ resp.invalid_parameters =
            DOMAIN resp.query \ {"region", "currency", "name", "sort"}
       /\ resp.rows = <<>>
       /\ resp.read = FALSE

C10_Witness ==
  /\ resp.op = "list"
  /\ DOMAIN resp.query = {"bogus", "page", "region", "sort"}
  /\ resp.status = 400
  /\ Cardinality(DOMAIN store) = 2

(* The rows of st that match every filter the query q carries: region,     *)
(* currency (against currency_code) and name, each compared without regard *)
(* to letter case; a row whose field is absent matches no filter on it.    *)
FilterMatching(st, q) ==
  {n \in DOMAIN st :
     /\ "region" \in DOMAIN q
          => (st[n].region # None /\ Lower(st[n].region[1]) = Lower(q["region"]))
     /\ "currency" \in DOMAIN q
          => (st[n].currency_code # None
              /\ Lower(st[n].currency_code[1]) = Lower(q["currency"]))
     /\ "name" \in DOMAIN q => Lower(n) = Lower(q["name"])}
ListedBy(sort) ==
  resp.op = "list" /\ resp.status = 200
    /\ "sort" \in DOMAIN resp.query /\ resp.query["sort"] = sort

(* C11: a list answered 200 returns each row at most once; with            *)
(* sort=gdp_desc (gdp_asc) the rows are exactly the filter-matching rows   *)
(* whose estimated_gdp is present, in descending (ascending) order of      *)
(* estimated_gdp; with any other sort value, recognised or not, or none,   *)
(* the rows are exactly the filter-matching rows, absent fields or not.    *)
C11_GdpSortExcludesAbsent ==
  (resp.op = "list" /\ resp.status = 200)
    => LET rows == resp.rows
           listed == {rows[i] : i \in DOMAIN rows}
           matching == FilterMatching(store, resp.query)
       IN /\ Len(rows) = Cardinality(listed)
          /\ listed = IF ListedBy("gdp_desc") \/ ListedBy("gdp_asc")
                      THEN {n \in matching : store[n].estimated_gdp # None}
                      ELSE matching
          /\ ListedBy("gdp_desc")
               => \A i, j \in DOMAIN rows :
                    i < j => store[rows[i]].estimated_gdp[1]
                               >= store[rows[j]].estimated_gdp[1]
          /\ ListedBy("gdp_asc")
               => \A i, j \in DOMAIN rows :
                    i < j => store[rows[i]].estimated_gdp[1]
                               <= store[rows[j]].estimated_gdp[1]

C11_Witness ==
  /\ ListedBy("gdp_desc")
  /\ Len(resp.rows) = 2
  /\ store[resp.rows[1]].estimated_gdp[1] > store[resp.rows[2]].estimated_gdp[1]

(* The code of the first entry of the currency list that carries a         *)
(* non-empty code, absent when there is none.                              *)
FirstUsableCode(country_data) ==
  LET usable == {i \in DOMAIN country_data.currencies :
                   ~FalsyStr(country_data.currencies[i].code)}
  IN IF usable = {} THEN None
     ELSE country_data.currencies[CHOOSE i \in usable :
                                    \A j \in usable : i <= j].code

(* C12: the currency code the loop takes for a named entry is the code of  *)
(* the first entry of its currency list that carries a non-empty code,     *)
(* absent when no entry does; and once the loop has handled an entry with  *)
(* such a code (one that did not die of a zero rate or of an oversized     *)
(* GDP), the country is in the table with that code.                       *)
C12_FirstUsableCodeAssigned ==
  HandledNamed
    => /\ (IF FalsyStr(get_currency_code(cur.entry.currencies)) THEN None
           ELSE get_currency_code(cur.entry.currencies))
            = FirstUsableCode(cur.entry)
       /\ (~NoUsableCode(cur.entry)
             /\ cur.outcome \notin {"zero_division", "invalid_gdp"})
            => /\ CurName \in DOMAIN store
               /\ store[CurName].currency_code = FirstUsableCode(cur.entry)

====
